---- MODULE Spec2Model ----
(***************************************************************************)
(* WikidotPageFetcher (src/main.py): the key-value content parser, the     *)
(* timestamp enricher and the fetcher's session life cycle.                *)
(*                                                                         *)
(* A Python str is a sequence of one-character strings; a dict is a        *)
(* function whose domain is its key set.                                   *)
(***************************************************************************)
EXTENDS Integers, Sequences, FiniteSets, TLC

VARIABLES content, parsed_data, ppc,
          data0, data, result, raised, epc,
          client, site, sessions, scope, auth_attempts, logins_ok, last

parseVars == <<content, parsed_data, ppc>>
enrichVars == <<data0, data, result, raised, epc>>
fetcherVars == <<client, site, sessions, scope, auth_attempts, logins_ok, last>>
vars == <<content, parsed_data, ppc, data0, data, result, raised, epc,
          client, site, sessions, scope, auth_attempts, logins_ok, last>>

\* ------------------------------------------------------------------ bounds

\* Longest input text given to the parser.
MaxLen == 5

\* Most keys of a mapping given to the enricher.
MaxKeys == 2

\* Most client sessions opened, and most authentication attempts made, in a run.
MaxSessions == 2
MaxAttempts == 3

\* ------------------------------------------------------ Python str and dict

\* Python's None: a value no str equals (a str's elements are single characters).
None == <<"None">>

EmptyDict == [k \in {} |-> <<>>]

\* d[key] = value
SetItem(d, key, value) ==
    [k \in DOMAIN d \cup {key} |-> IF k = key THEN value ELSE d[k]]

\* The characters str.strip() removes (of those the inputs are made of).
IsSpace(c) == c \in {" ", "\n", "\t"}

RECURSIVE lstrip(_)
lstrip(s) == IF s # <<>> /\ IsSpace(Head(s)) THEN lstrip(Tail(s)) ELSE s

RECURSIVE rstrip(_)
rstrip(s) ==
    IF s # <<>> /\ IsSpace(s[Len(s)]) THEN rstrip(SubSeq(s, 1, Len(s) - 1)) ELSE s

\* str.strip()
strip(s) == rstrip(lstrip(s))

\* c in s
Contains(s, c) == \E i \in 1..Len(s) : s[i] = c

\* s.find(c), 1-based; only used where c occurs in s.
RECURSIVE find(_, _)
find(s, c) == IF Head(s) = c THEN 1 ELSE 1 + find(Tail(s), c)

\* s.split(sep) for a one-character separator: every piece, empty ones kept.
RECURSIVE split(_, _)
split(s, sep) ==
    IF Contains(s, sep)
    THEN LET i == find(s, sep)
         IN  <<SubSeq(s, 1, i - 1)>> \o split(SubSeq(s, i + 1, Len(s)), sep)
    ELSE <<s>>

\* line.split(':', 1): the two pieces around the first separator.
split_once(line, sep) ==
    LET i == find(line, sep)
    IN  <<SubSeq(line, 1, i - 1), SubSeq(line, i + 1, Len(line))>>

startswith(s, c) == s # <<>> /\ s[1] = c
endswith(s, c) == s # <<>> /\ s[Len(s)] = c

\* value[1:-1]
slice_1_m1(s) == SubSeq(s, 2, Len(s) - 1)

\* ------------------------------------------- _parse_key_value_content

\* if value.startswith("'") and value.endswith("'"): value = value[1:-1]
strip_quotes(value) ==
    IF startswith(value, "'") /\ endswith(value, "'") THEN slice_1_m1(value) ELSE value

\* A buggy insertion: the first line of a key wins.
store_first(d, key, value) == IF key \in DOMAIN d THEN d ELSE SetItem(d, key, value)

\* parsed_data[key] = value
store(d, key, value) == SetItem(d, key, value)

\* The body of the loop over the lines.
parse_line(d, line) ==
    IF Contains(line, ":")
    THEN LET kv == split_once(line, ":")
             key == strip(kv[1])
             value == strip(kv[2])
         IN  store(d, key, strip_quotes(value))
    ELSE d

RECURSIVE parse_lines(_, _)
parse_lines(d, lines) ==
    IF lines = <<>> THEN d ELSE parse_lines(parse_line(d, Head(lines)), Tail(lines))

_parse_key_value_content(c) ==
    IF c = None \/ c = <<>>
    THEN EmptyDict
    ELSE parse_lines(EmptyDict, split(strip(c), "\n"))

\* ------------------------------------------------- _convert_timestamps

\* c * n
Rep(c, n) == [i \in 1..n |-> c]

AsciiDigit == <<"0", "1", "2", "3", "4", "5", "6", "7", "8", "9">>

\* Characters outside ASCII, named by code point: SUPERSCRIPT TWO is a digit
\* to str.isdigit() and no decimal to int(); ARABIC-INDIC DIGIT ONE is both.
SuperscriptTwo == "U+00B2"
ArabicIndicOne == "U+0661"

IsAsciiDigit(c) == \E i \in 1..10 : AsciiDigit[i] = c

\* int(c) of one decimal character.
DecimalValue(c) ==
    IF c = ArabicIndicOne THEN 1 ELSE (CHOOSE i \in 1..10 : AsciiDigit[i] = c) - 1

IsDecimalChar(c) == IsAsciiDigit(c) \/ c = ArabicIndicOne

IsDigitChar(c) == IsDecimalChar(c) \/ c = SuperscriptTwo

\* str.isdigit(): non-empty and every character a digit.
isdigit(s) == s # <<>> /\ \A i \in 1..Len(s) : IsDigitChar(s[i])

\* Whether int(s) returns for a str that passed isdigit(); it raises
\* ValueError otherwise.
int_parses(s) == \A i \in 1..Len(s) : IsDecimalChar(s[i])

RECURSIVE drop_zeros(_)
drop_zeros(ds) ==
    IF Len(ds) > 1 /\ Head(ds) = 0 THEN drop_zeros(Tail(ds)) ELSE ds

\* int(s): an unbounded integer, kept as its decimal digits without leading zeros.
int(s) == drop_zeros([i \in 1..Len(s) |-> DecimalValue(s[i])])

\* a <= b on integers kept as digits.
RECURSIVE LexLeq(_, _)
LexLeq(a, b) ==
    \/ a = <<>>
    \/ Head(a) < Head(b)
    \/ Head(a) = Head(b) /\ LexLeq(Tail(a), Tail(b))

Leq(a, b) == Len(a) < Len(b) \/ (Len(a) = Len(b) /\ LexLeq(a, b))

\* The platform's limits (64-bit time_t, UTC): the last second of year 9999,
\* the last second localtime() can break down, and the largest time_t.
MaxDatetimeTs == <<2, 5, 3, 4, 0, 2, 3, 0, 0, 7, 9, 9>>
MaxLocaltimeTs == <<6, 7, 7, 6, 7, 9, 7, 6, 2, 3, 3, 5, 3, 2, 7, 9, 9>>
MaxTimeT == <<9, 2, 2, 3, 3, 7, 2, 0, 3, 6, 8, 5, 4, 7, 7, 5, 8, 0, 7>>

\* The exception datetime.fromtimestamp(ts) raises, "none" when it returns.
fromtimestamp(ts) ==
    IF Leq(ts, MaxDatetimeTs) THEN "none"
    ELSE IF Leq(ts, MaxLocaltimeTs) THEN "ValueError"
    ELSE IF Leq(ts, MaxTimeT) THEN "OSError"
    ELSE "OverflowError"

\* .strftime('%Y-%m-%d %H:%M:%S') of the date of epoch second ts: a text that
\* the second alone decides, marked so that it is no input text.
strftime(ts) == <<"@">> \o [i \in 1..Len(ts) |-> AsciiDigit[ts[i] + 1]]

\* except (ValueError, TypeError)
timestamp_caught == {"ValueError", "TypeError"}

\* timestamp_to_date: [exc |-> the exception that leaves it, value |-> what it returns]
timestamp_to_date(ts_str) ==
    IF ~int_parses(ts_str)
    THEN IF "ValueError" \in timestamp_caught
         THEN [exc |-> "none", value |-> ts_str]
         ELSE [exc |-> "ValueError", value |-> ts_str]
    ELSE LET e == fromtimestamp(int(ts_str))
         IN  IF e = "none" THEN [exc |-> "none", value |-> strftime(int(ts_str))]
             ELSE IF e \in timestamp_caught THEN [exc |-> "none", value |-> ts_str]
             ELSE [exc |-> e, value |-> ts_str]

date_from == <<"d", "a", "t", "e", "-", "f", "r", "o", "m">>
date_to == <<"d", "a", "t", "e", "-", "t", "o">>
created_at == <<"c", "r", "e", "a", "t", "e", "d", "_", "a", "t">>
updated_at == <<"u", "p", "d", "a", "t", "e", "d", "_", "a", "t">>
time_fields == <<date_from, date_to, created_at, updated_at>>

\* f'{field}_readable'
readable(field) == field \o <<"_", "r", "e", "a", "d", "a", "b", "l", "e">>

\* if field in result and result[field].isdigit()
convertible(d, field) == field \in DOMAIN d /\ isdigit(d[field])

\* The loop over time_fields: [exc, result], stopping at the first exception.
RECURSIVE convert_fields(_, _)
convert_fields(d, fields) ==
    IF fields = <<>> THEN [exc |-> "none", result |-> d]
    ELSE IF convertible(d, Head(fields))
    THEN LET r == timestamp_to_date(d[Head(fields)])
         IN  IF r.exc # "none" THEN [exc |-> r.exc, result |-> d]
             ELSE convert_fields(SetItem(d, readable(Head(fields)), r.value),
                                 Tail(fields))
    ELSE convert_fields(d, Tail(fields))

\* result = data.copy(); ...; return result
_convert_timestamps(d) == convert_fields(d, time_fields)

title == <<"t", "i", "t", "l", "e">>

\* ------------------------------------------------------------ the fetcher

\* self.client = None, self.site = None; a session is named by a number >= 1.
ClientNone == 0

\* What the Site Client does when login() runs: wikidot.Client(...) raises,
\* or it opens a session and client.site.get(...) raises, or both return.
LoginOutcomes == {"client_raises", "site_raises", "ok"}

\* login(): c is [client, site, sessions]; a session opened while the fetcher
\* is used inside a with block is marked scoped.
login(c, env, in_scope) ==
    IF env = "client_raises"
    THEN [client |-> ClientNone, site |-> ClientNone, sessions |-> c.sessions,
          ok |-> FALSE]
    ELSE LET opened == Append(c.sessions, [state |-> "open", scoped |-> in_scope])
         IN  IF env = "site_raises"
             THEN [client |-> ClientNone, site |-> ClientNone, sessions |-> opened,
                   ok |-> FALSE]
             ELSE [client |-> Len(opened), site |-> Len(opened), sessions |-> opened,
                   ok |-> TRUE]

\* __exit__: if self.client: self.client.close()
exit_sessions(c) ==
    IF c.client # ClientNone
    THEN [c.sessions EXCEPT ![c.client].state = "closed"]
    ELSE c.sessions

\* A retrying fetch: it logs in again on every call.
needs_login_always(s) == TRUE

\* if not self.site
needs_login(s) == s = ClientNone

reserve == <<"r", "e", "s", "e", "r", "v", "e", ":">>

\* 'reserve:' + page_name
qualified(page_name) == reserve \o page_name

page_info_key == <<"_", "p", "a", "g", "e", "_", "i", "n", "f", "o">>

\* page.created_at.isoformat(): the date and the time joined by a T.
isoformat(dt) == IF dt = "2021-01-01 00:00:00" THEN "2021-01-01T00:00:00" ELSE "T"

\* The dict literal stored under '_page_info': its seven values in the order
\* written, each by its JSON text.
PageInfo(page) ==
    << page.fullname, page.name, page.title, page.category,
       IF page.created_at # "None" THEN isoformat(page.created_at) ELSE "null",
       IF page.created_by # "None" THEN page.created_by ELSE "null",
       page.size >>

\* The metadata written first, so that a content line of that key replaces it.
attach_under(parsed, info) ==
    IF page_info_key \in DOMAIN parsed THEN parsed ELSE SetItem(parsed, page_info_key, info)

\* parsed_data['_page_info'] = {...}
attach(parsed, info) == SetItem(parsed, page_info_key, info)

ReturnNone == [exc |-> "none", ret |-> [kind |-> "None", value |-> EmptyDict]]
ReturnDict(d) == [exc |-> "none", ret |-> [kind |-> "dict", value |-> d]]
Raise(e) == [exc |-> e, ret |-> [kind |-> "None", value |-> EmptyDict]]

\* The try block of fetch_page after the lookup, on what the Site Client gives.
fetch_body(p) ==
    IF p.get = "raises" THEN Raise("WikidotError")
    ELSE IF p.source = "raises" THEN Raise("WikidotError")
    ELSE IF p.source = "no_wiki_text" THEN ReturnNone
    ELSE IF p.text = None \/ p.text = <<>> THEN ReturnNone
    ELSE IF ~p.meta_ok THEN Raise("AttributeError")
    ELSE LET parsed == attach(_parse_key_value_content(p.text), PageInfo(p.meta))
             final == _convert_timestamps(parsed)
         IN  IF final.exc # "none" THEN Raise(final.exc) ELSE ReturnDict(final.result)

\* The exceptions of the run that are subclasses of Exception.
ExceptionClasses ==
    {"WikidotError", "AttributeError", "ValueError", "TypeError", "OSError",
     "OverflowError"}

\* A handler that names two classes only.
fetch_caught_narrow(e) == e \in {"ValueError", "TypeError"}

\* except Exception as e
fetch_caught(e) == e \in ExceptionClasses

\* The exception that leaves a try block whose handler returns None.
handled(b) ==
    IF b.exc = "none" THEN b
    ELSE IF fetch_caught(b.exc) THEN ReturnNone
    ELSE b

\* fetch_page: the fetcher after the call and what the call did.
fetch_page(c, page_name, lenv, penv, in_scope) ==
    LET need == needs_login(c.site)
        l == IF need THEN login(c, lenv, in_scope)
             ELSE [client |-> c.client, site |-> c.site, sessions |-> c.sessions,
                   ok |-> TRUE]
    IN  IF need /\ ~l.ok
        THEN [client |-> l.client, site |-> l.site, sessions |-> l.sessions,
              attempts |-> 1, logged_in |-> 0, looked_up |-> None,
              lookup_live |-> FALSE, out |-> ReturnNone]
        ELSE [client |-> l.client, site |-> l.site, sessions |-> l.sessions,
              attempts |-> IF need THEN 1 ELSE 0,
              logged_in |-> IF need THEN 1 ELSE 0,
              looked_up |-> qualified(page_name),
              lookup_live |-> l.site # ClientNone /\ l.sessions[l.site].state = "open",
              out |-> handled(fetch_body(penv))]

\* json.dumps(data, ensure_ascii=False, indent=indent): the text of data.
dumps(d) == [kind |-> "json", value |-> d]

\* fetch_page_as_json after fetch_page returned r.
as_json(out, jenv) ==
    IF out.exc # "none" \/ out.ret.kind = "None" THEN out
    ELSE handled(IF jenv = "raises" THEN Raise("TypeError")
                 ELSE [exc |-> "none", ret |-> dumps(out.ret.value)])

\* -------------------------------------------------- the Site Client's pages

rpc_055 == <<"r", "p", "c", "-", "0", "5", "5">>
PageNames == {rpc_055, <<"x">>}

Meta1 ==
    [fullname |-> "reserve:rpc-055", name |-> "rpc-055", title |-> "RPC-055",
     category |-> "reserve", created_at |-> "2021-01-01 00:00:00",
     created_by |-> "alice", size |-> "1234"]
Meta2 == [Meta1 EXCEPT !.created_at = "None", !.created_by = "None"]

KeyValue(key, value) == key \o <<":", " ">> \o value

TextHello ==
    KeyValue(title, <<"'", "H", "i", "'">>) \o <<"\n">>
        \o KeyValue(date_from, <<"1", "6", "0", "9", "4", "5", "9", "2", "0", "0">>)
TextCollides == KeyValue(page_info_key, <<"x">>) \o <<"\n">> \o KeyValue(title, <<"a">>)
TextOverflows == KeyValue(date_to, Rep("9", 20))
TextNoColon == <<"h", "i">>

Page(get, source, text, meta_ok, meta) ==
    [get |-> get, source |-> source, text |-> text, meta_ok |-> meta_ok, meta |-> meta]

PageOutcomes ==
    { Page("raises", "raises", None, FALSE, Meta1),
      Page("ok", "raises", None, FALSE, Meta1),
      Page("ok", "no_wiki_text", None, TRUE, Meta1),
      Page("ok", "ok", None, TRUE, Meta1),
      Page("ok", "ok", <<>>, TRUE, Meta1),
      Page("ok", "ok", TextHello, TRUE, Meta1),
      Page("ok", "ok", TextHello, TRUE, Meta2),
      Page("ok", "ok", TextHello, FALSE, Meta1),
      Page("ok", "ok", TextCollides, TRUE, Meta1),
      Page("ok", "ok", TextOverflows, TRUE, Meta1),
      Page("ok", "ok", TextNoColon, TRUE, Meta2) }

\* No page is asked of the Site Client in the call.
NotAsked == Page("not_asked", "not_asked", None, FALSE, Meta1)

\* ------------------------------------------------------- before any call

\* The parser and the enricher before any call of them.
IdleParse == content = None /\ parsed_data = EmptyDict /\ ppc = "idle"
IdleEnrich ==
    /\ data0 = EmptyDict
    /\ data = EmptyDict
    /\ result = EmptyDict
    /\ raised = "none"
    /\ epc = "idle"

\* What the last operation on the fetcher was and did; `op` is "none" before any.
NoCall ==
    [op |-> "none", page_name |-> None, lenv |-> "not_called", penv |-> NotAsked,
     jenv |-> "not_called", exc |-> "none", had_site |-> FALSE, had_live |-> FALSE,
     attempts |-> 0, looked_up |-> None, lookup_live |-> FALSE,
     ret |-> [kind |-> "None", value |-> EmptyDict], escaped |-> "none"]

\* The fetcher as __init__ leaves it.
IdleFetcher ==
    /\ client = ClientNone
    /\ site = ClientNone
    /\ sessions = <<>>
    /\ scope = "outside"
    /\ auth_attempts = 0
    /\ logins_ok = 0
    /\ last = NoCall

\* ------------------------------------------------------ the parser, called

ParseAlphabet == {"a", ":", " ", "'", "\n"}

ParseInputs == {None} \cup UNION {[1..n -> ParseAlphabet] : n \in 0..MaxLen}

InitParse ==
    /\ content \in ParseInputs
    /\ parsed_data = EmptyDict
    /\ ppc = "call"
    /\ IdleEnrich
    /\ IdleFetcher

ParseCall ==
    /\ ppc = "call"
    /\ parsed_data' = _parse_key_value_content(content)
    /\ ppc' = "returned"
    /\ UNCHANGED <<content, enrichVars, fetcherVars>>

NextParse == ParseCall

SpecParse == InitParse /\ [][NextParse]_vars

\* --------------------------------------------------- the parser's contract

Min(S) == CHOOSE x \in S : \A y \in S : x <= y
Max(S) == CHOOSE x \in S : \A y \in S : x >= y

\* Where the lines of a text start: after position 0 and after every newline.
Breaks(s) == {0} \cup {i \in 1..Len(s) : s[i] = "\n"}

\* The line that starts after break p: up to the next newline, or the end.
LineAt(s, p) ==
    LET e == Min({i \in Breaks(s) \cup {Len(s) + 1} : i > p})
    IN  SubSeq(s, p + 1, e - 1)

FirstColon(l) ==
    CHOOSE i \in 1..Len(l) : l[i] = ":" /\ \A j \in 1..(i - 1) : l[j] # ":"

Trimmed(s) ==
    LET ns == {i \in 1..Len(s) : ~IsSpace(s[i])}
    IN  IF ns = {} THEN <<>> ELSE SubSeq(s, Min(ns), Max(ns))

KeyOf(l) == Trimmed(SubSeq(l, 1, FirstColon(l) - 1))
ValueOf(l) == Trimmed(SubSeq(l, FirstColon(l) + 1, Len(l)))

ColonLines(s) == {p \in Breaks(s) : Contains(LineAt(s, p), ":")}

\* The last line of text s whose key is k.
LastLineOf(s, k) == LineAt(s, Max({p \in ColonLines(s) : KeyOf(LineAt(s, p)) = k}))

\* The mapping of the contract, with Stored applied to each value kept.
ContractMapping(s, Stored(_)) ==
    IF s = None
    THEN EmptyDict
    ELSE [k \in {KeyOf(LineAt(s, p)) : p \in ColonLines(s)} |->
              Stored(ValueOf(LastLineOf(s, k)))]

\* C1: the parser returns the mapping whose keys are the trimmed texts before
\* the first colon of the lines that hold a colon, each with the trimmed text
\* after the first colon of the LAST line of that key (stored under the quote
\* rule of the code); lines without a colon add nothing, and an empty or null
\* text gives the empty mapping.
C1_ParseIsLastWinsFirstColon ==
    ppc = "returned" => parsed_data = ContractMapping(content, strip_quotes)

\* C1 witness: a key on two lines, the later value kept, a colon in the value
\* or a line without a colon beside it.
C1_Witness ==
    /\ ppc = "returned"
    /\ content = <<":", "a", "\n", ":", ":">>
    /\ parsed_data = (<<>> :> <<":">>)

\* The quote rule as the contract words it: only a value of length >= 2.
ContractQuotes(v) ==
    IF Len(v) >= 2 /\ v[1] = "'" /\ v[Len(v)] = "'" THEN SubSeq(v, 2, Len(v) - 1) ELSE v

\* C2: a stored value has one leading and one trailing quote removed iff it
\* starts and ends with a quote and has length >= 2; otherwise (a lone quote
\* included) it is the trimmed value unchanged.
C2_QuotesRemovedOnlyFromLengthTwo ==
    ppc = "returned" => parsed_data = ContractMapping(content, ContractQuotes)

\* ---------------------------------------------------- the enricher, called

EnrichKeys == {date_from, date_to, created_at, updated_at, readable(created_at), title}

EnrichValues ==
    { <<>>, <<"5">>, <<"-", "5">>, <<"a", "b", "c">>, <<"0", "0", "7">>,
      <<"1", "7">> \o Rep("0", 8),
      Rep("9", 14), Rep("9", 17), Rep("9", 20),
      <<SuperscriptTwo>>, <<ArabicIndicOne, "2">> }

EnrichInputs ==
    UNION {[K -> EnrichValues] : K \in {S \in SUBSET EnrichKeys : Cardinality(S) <= MaxKeys}}

InitEnrich ==
    /\ data0 \in EnrichInputs
    /\ data = data0
    /\ result = EmptyDict
    /\ raised = "none"
    /\ epc = "call"
    /\ IdleParse
    /\ IdleFetcher

\* One call of _convert_timestamps(data): it works on a copy, so the caller's
\* mapping stays as it is; an exception leaves no return value.
ConvertCall ==
    /\ epc = "call"
    /\ LET r == _convert_timestamps(data)
       IN  /\ raised' = r.exc
           /\ result' = IF r.exc = "none" THEN r.result ELSE EmptyDict
           /\ epc' = IF r.exc = "none" THEN "returned" ELSE "raised"
    /\ UNCHANGED <<data0, data, parseVars, fetcherVars>>

NextEnrich == ConvertCall

SpecEnrich == InitEnrich /\ [][NextEnrich]_vars

\* --------------------------------------------------- the enricher's contract

TimeFieldSet == {time_fields[i] : i \in 1..Len(time_fields)}

\* C3: the enricher never removes or changes a key of its input (one that is
\* already called <field>_readable included), and leaves the input mapping
\* itself as it was.
C3_EnrichKeepsEveryInputKey ==
    epc = "returned" =>
        /\ data = data0
        /\ \A k \in DOMAIN data0 : k \in DOMAIN result /\ result[k] = data0[k]

\* Non-empty and made of the characters 0-9 only.
AllAsciiDigits(s) == s # <<>> /\ \A i \in 1..Len(s) : IsAsciiDigit(s[i])

\* C4: the keys of the output are those of the input and <f>_readable for
\* exactly the recognized fields f whose value is non-empty and made of the
\* characters 0-9 only.
C4_ReadableKeysOnlyForAsciiDigits ==
    epc = "returned" =>
        DOMAIN result =
            DOMAIN data0 \cup
            {readable(f) : f \in {g \in TimeFieldSet \cap DOMAIN data0 :
                                      AllAsciiDigits(data0[g])}}

\* An all-digit value of a recognized field whose conversion to a date fails.
ConversionFails(d, f) ==
    /\ f \in DOMAIN d
    /\ AllAsciiDigits(d[f])
    /\ fromtimestamp(int(d[f])) # "none"

\* C5: when the conversion of an all-digit value of a recognized field fails,
\* the call returns without raising, the field keeps its value and no
\* <field>_readable is added.
C5_FailedConversionIsSkipped ==
    \A f \in TimeFieldSet :
        (epc \in {"returned", "raised"} /\ ConversionFails(data0, f)) =>
            /\ epc = "returned"
            /\ result[f] = data0[f]
            /\ (readable(f) \notin DOMAIN data0 => readable(f) \notin DOMAIN result)

\* ------------------------------------------------- the fetcher's operations

Fetcher == [client |-> client, site |-> site, sessions |-> sessions]

InScope == scope = "inside"

\* A login can still be made within the bounds of the run.
CanLogin == Len(sessions) < MaxSessions /\ auth_attempts < MaxAttempts

IsLive(c) == c.site # ClientNone /\ c.sessions[c.site].state = "open"

\* with WikidotPageFetcher(...) as fetcher: __enter__ logs in and returns self.
Enter ==
    /\ scope = "outside"
    /\ CanLogin
    /\ \E lenv \in LoginOutcomes :
        LET l == login(Fetcher, lenv, TRUE)
        IN  /\ client' = l.client
            /\ site' = l.site
            /\ sessions' = l.sessions
            /\ logins_ok' = logins_ok + (IF l.ok THEN 1 ELSE 0)
            /\ last' = [NoCall EXCEPT !.op = "enter", !.lenv = lenv, !.attempts = 1]
    /\ scope' = "inside"
    /\ auth_attempts' = auth_attempts + 1
    /\ UNCHANGED <<parseVars, enrichVars>>

\* The with block is left, normally or by an exception of its body: __exit__.
Exit ==
    /\ scope = "inside"
    /\ \E exc \in {"none", "RuntimeError"} :
        last' = [NoCall EXCEPT !.op = "exit", !.exc = exc]
    /\ sessions' = exit_sessions(Fetcher)
    /\ scope' = "exited"
    /\ UNCHANGED <<client, site, auth_attempts, logins_ok, parseVars, enrichVars>>

\* fetcher.login()
Login ==
    /\ CanLogin
    /\ \E lenv \in LoginOutcomes :
        LET l == login(Fetcher, lenv, InScope)
        IN  /\ client' = l.client
            /\ site' = l.site
            /\ sessions' = l.sessions
            /\ logins_ok' = logins_ok + (IF l.ok THEN 1 ELSE 0)
            /\ last' = [NoCall EXCEPT !.op = "login", !.lenv = lenv, !.attempts = 1]
    /\ auth_attempts' = auth_attempts + 1
    /\ UNCHANGED <<scope, parseVars, enrichVars>>

\* What the Site Client is asked in a call: nothing at login when a site is
\* held, no page when the login failed.
LoginAsked == IF needs_login(site) THEN LoginOutcomes ELSE {"not_called"}
PagesAsked(lenv) == IF lenv = "ok" \/ lenv = "not_called" THEN PageOutcomes ELSE {NotAsked}

\* The fetcher and the record of the call after fetch_page returned r.
Fetched(op, page_name, lenv, penv, jenv, r, out) ==
    /\ client' = r.client
    /\ site' = r.site
    /\ sessions' = r.sessions
    /\ auth_attempts' = auth_attempts + r.attempts
    /\ logins_ok' = logins_ok + r.logged_in
    /\ last' = [op |-> op, page_name |-> page_name, lenv |-> lenv, penv |-> penv,
                jenv |-> jenv, exc |-> "none", had_site |-> site # ClientNone,
                had_live |-> IsLive(Fetcher), attempts |-> r.attempts,
                looked_up |-> r.looked_up, lookup_live |-> r.lookup_live,
                ret |-> out.ret, escaped |-> out.exc]
    /\ UNCHANGED <<scope, parseVars, enrichVars>>

\* fetcher.fetch_page(page_name)
FetchPage ==
    /\ needs_login(site) => CanLogin
    /\ \E page_name \in PageNames, lenv \in LoginAsked :
        \E penv \in PagesAsked(lenv) :
            LET r == fetch_page(Fetcher, page_name, lenv, penv, InScope)
            IN  Fetched("fetch_page", page_name, lenv, penv, "not_called", r, r.out)

\* fetcher.fetch_page_as_json(page_name)
FetchPageAsJson ==
    /\ needs_login(site) => CanLogin
    /\ \E page_name \in PageNames, lenv \in LoginAsked :
        \E penv \in PagesAsked(lenv) :
            LET r == fetch_page(Fetcher, page_name, lenv, penv, InScope)
            IN  \E jenv \in (IF r.out.ret.kind = "dict" THEN {"ok", "raises"}
                             ELSE {"not_called"}) :
                    Fetched("fetch_page_as_json", page_name, lenv, penv, jenv, r,
                            as_json(r.out, jenv))

Init == IdleParse /\ IdleEnrich /\ IdleFetcher

Next == Enter \/ Exit \/ Login \/ FetchPage \/ FetchPageAsJson

Spec == Init /\ [][Next]_vars

\* A fetcher on which only fetch_page and fetch_page_as_json are called.
NextFetchOnly == FetchPage \/ FetchPageAsJson

SpecFetchOnly == Init /\ [][NextFetchOnly]_vars

\* ------------------------------------------------- the fetcher's contract

IsFetchCall == last.op \in {"fetch_page", "fetch_page_as_json"}

\* The four failure classes of a call, read off what the Site Client and
\* json.dumps did in it.
AuthenticationFailed == last.lenv \in {"client_raises", "site_raises"}

HasText(p) == p.get = "ok" /\ p.source = "ok" /\ p.text # None /\ p.text # <<>>

ContentMissing ==
    /\ last.penv.get = "ok"
    /\ \/ last.penv.source = "no_wiki_text"
       \/ last.penv.source = "ok" /\ ~HasText(last.penv)

LibraryRaised ==
    \/ last.penv.get = "raises"
    \/ last.penv.get = "ok" /\ last.penv.source = "raises"
    \/ HasText(last.penv) /\ ~last.penv.meta_ok

SerializationFailed == last.jenv = "raises"

\* C6: whatever the Site Client and the serialization do, no exception leaves
\* fetch_page or fetch_page_as_json, and a call in which authentication failed,
\* the content was missing or empty, the library raised or the serialization
\* failed returns None.
C6_NoExceptionEscapesAndFailuresGiveNone ==
    IsFetchCall =>
        /\ last.escaped = "none"
        /\ (AuthenticationFailed \/ ContentMissing \/ LibraryRaised \/ SerializationFailed)
               => last.ret.kind = "None"

\* C6 witness: reading the page's metadata raised in a call that had the text.
C6_Witness ==
    /\ last.op = "fetch_page_as_json"
    /\ HasText(last.penv)
    /\ ~last.penv.meta_ok
    /\ last.ret.kind = "None"
    /\ last.escaped = "none"

\* C7: a successful fetch_page looked the page up under 'reserve:' + page_name
\* and returns the enrichment of the parsed text with the metadata record set
\* under '_page_info' after the parse, so that the record is what the result
\* holds under that key even when a content line uses it.
C7_SuccessIsEnrichOfParsePlusMetadata ==
    (last.op = "fetch_page" /\ last.ret.kind = "dict") =>
        /\ last.looked_up = reserve \o last.page_name
        /\ last.ret.value =
               _convert_timestamps(
                   SetItem(ContractMapping(last.penv.text, strip_quotes),
                           page_info_key, PageInfo(last.penv.meta))).result
        /\ last.ret.value[page_info_key] = PageInfo(last.penv.meta)

\* C7 witness: a successful fetch of a page with a content line '_page_info: x'.
C7_Witness ==
    /\ last.op = "fetch_page"
    /\ last.ret.kind = "dict"
    /\ last.penv.text = TextCollides
    /\ last.page_name = rpc_055
    /\ last.ret.value[page_info_key] = PageInfo(Meta1)
    /\ last.ret.value[title] = <<"a">>

\* C8: once the with block has been left, every session that login opened
\* inside it (whether or not the site lookup after it succeeded) is closed.
C8_ScopedSessionsClosedAfterExit ==
    scope = "exited" =>
        \A i \in 1..Len(sessions) : sessions[i].scoped => sessions[i].state = "closed"

\* C9: fetch_page looks a page up only on a session that is authenticated and
\* open; a call that starts without one makes exactly one authentication
\* attempt, and returns None without a lookup when that attempt fails.
C9_LookupOnlyOnLiveSession ==
    IsFetchCall =>
        /\ last.looked_up # None => last.lookup_live
        /\ ~last.had_live => last.attempts = 1
        /\ (~last.had_live /\ AuthenticationFailed) =>
               (last.looked_up = None /\ last.ret.kind = "None")

\* C10: over any sequence of fetch_page calls, once a login has succeeded no
\* later call changes the client or the site or makes an authentication
\* attempt, so at most one login succeeds.
C10_NoReloginAfterSuccess ==
    [][logins_ok >= 1 =>
          /\ client' = client
          /\ site' = site
          /\ auth_attempts' = auth_attempts
          /\ logins_ok' = logins_ok]_vars

\* C10 witness: after the one successful login, a call that found a site held
\* ended in a page-level failure.
C10_Witness ==
    /\ logins_ok = 1
    /\ IsFetchCall
    /\ last.had_site
    /\ last.attempts = 0
    /\ (ContentMissing \/ LibraryRaised)
    /\ last.ret.kind = "None"
    /\ site # ClientNone

====
